---- MODULE Spec2Model ----
(***************************************************************************)
(* Device-state aggregation engine of the MQTT admin panel                 *)
(* (admin-panel/mqtt_client.py): MQTTClient.on_message, the bounded        *)
(* message history and the per-device state store; and the web server in   *)
(* front of it (admin-panel/app.py): device reconciliation, the observers' *)
(* websocket handlers and the command endpoints.                           *)
(*                                                                         *)
(* Representation.                                                         *)
(*  - A Python str is a sequence of tokens: each separator character       *)
(*    ('/', '-', ' ') is a token of its own and each maximal run of other  *)
(*    characters is one token, so that str.split walks the string token    *)
(*    by token.                                                            *)
(*  - A number that does not fit TLC's 32-bit integers (a millisecond      *)
(*    timestamp, the 10^12 threshold) is a record [hi, lo] standing for    *)
(*    hi * 10^6 + lo with 0 <= lo < 10^6.  A point in time is such a       *)
(*    number of milliseconds since the epoch (the ISO-8601 strings the     *)
(*    code stores denote exactly these instants).                          *)
(*  - A Python dict is a function whose DOMAIN is the set of its keys; the  *)
(*    insertion order of the device store's keys, which dict iteration     *)
(*    follows, is kept beside it in device_order.                          *)
(*  - An operation that may raise returns [ok, val, exc].                  *)
(*                                                                         *)
(* Three specifications: Spec delivers messages to on_message, SpecServer  *)
(* runs the server's handlers and callbacks one whole handler at a time,   *)
(* and SpecThreads interleaves the statements of on_message, run by the    *)
(* client's network thread, with those of a request.                       *)
(***************************************************************************)
EXTENDS Integers, Sequences, FiniteSets, TLC

VARIABLES
    messages,       \* self.messages: list of message_data dicts
    device_states,  \* self.device_states: device name -> dict
    emitted,        \* events handed to socketio.emit by the latest on_message call
    clock,          \* the wall clock read by datetime.now(timezone.utc)
    last,           \* the latest on_message call: its inputs and how it ended
    arrived,        \* every decodable inbound message so far, in arrival order
    ncalls,         \* number of on_message calls made by the receive loop
    device_order,   \* keys of self.device_states in insertion order
    pc,             \* "main" before app.py's main() has run, "serving" after
    mqtt_client,    \* app.py's global mqtt_client: "None" or "MQTTClient"
    is_connected,   \* mqtt_client.client.is_connected()
    loop_running,   \* the client's network loop thread runs (loop_start .. loop_stop)
    observers,      \* sids of the attached websocket clients
    outbox,         \* sid -> events delivered to it by the latest handler
    published,      \* client.publish calls made by the latest handler
    handled,        \* the latest request or callback handled: arguments and result
    ingest,         \* where the network thread is inside on_message, and its locals
    request,        \* where the server thread is inside get_devices, and its locals
    channel         \* sid -> the ingest events delivered to it so far, in order

store == <<messages, device_states, device_order, emitted, last, arrived, ncalls>>
vars == <<messages, device_states, emitted, clock, last, arrived, ncalls,
          device_order, pc, mqtt_client, is_connected, loop_running, observers, outbox,
          published, handled, ingest, request, channel>>
threads == <<ingest, request, channel>>

(***************************************************************************)
(* Bounds of the model.                                                    *)
(***************************************************************************)
MaxIngest == 2      \* on_message calls explored after the initial backlog
MaxTick == 1        \* clock ticks explored

(***************************************************************************)
(* Program constants.                                                      *)
(***************************************************************************)
max_messages == 100

MQTT_BASE_TOPIC == <<"esp", "-", "sensor", "-", "hub">>
UNKNOWN == <<"unknown">>
LAST_SEEN == <<"last_seen">>
SLASH == "/"

\* 1000000000000, the literal of "if ts_value > 1000000000000"
TS_MILLIS_THRESHOLD == [hi |-> 1000000, lo |-> 0]
ZERO == [hi |-> 0, lo |-> 0]
\* datetime.max (year 9999) in milliseconds since the epoch: 253402300799999
DATETIME_MAX_MS == [hi |-> 253402300, lo |-> 799999]

(***************************************************************************)
(* Numbers and times.                                                      *)
(***************************************************************************)
Gt(a, b) == a.hi > b.hi \/ (a.hi = b.hi /\ a.lo > b.lo)
Leq(a, b) == ~Gt(a, b)

(***************************************************************************)
(* Exceptions: the classes on_message can meet and their base classes.     *)
(***************************************************************************)
Bases(exc) ==
    CASE exc = "UnicodeDecodeError" -> {"UnicodeDecodeError", "UnicodeError", "ValueError", "Exception"}
      [] exc = "JSONDecodeError" -> {"JSONDecodeError", "ValueError", "Exception"}
      [] exc = "ValueError" -> {"ValueError", "Exception"}
      [] exc = "TypeError" -> {"TypeError", "Exception"}
      [] exc = "OverflowError" -> {"OverflowError", "ArithmeticError", "Exception"}
      [] OTHER -> {exc}

\* "except <classes>" catches exc
Catches(classes, exc) == Bases(exc) \cap classes # {}

Ok(v) == [ok |-> TRUE, val |-> v, exc |-> "None"]
Raise(e) == [ok |-> FALSE, val |-> "None", exc |-> e]

(***************************************************************************)
(* str.split(sep) and the topic templates of config.py.                    *)
(***************************************************************************)
RECURSIVE Split(_, _)
Split(s, sep) ==
    IF s = <<>> THEN << <<>> >>
    ELSE IF Head(s) = sep THEN << <<>> >> \o Split(Tail(s), sep)
    ELSE LET r == Split(Tail(s), sep)
         IN  << <<Head(s)>> \o Head(r) >> \o Tail(r)

\* '<base>/<device>/<kind>...': the segments joined by '/'
RECURSIVE TopicOf(_)
TopicOf(segs) ==
    IF Len(segs) = 1 THEN segs[1]
    ELSE segs[1] \o <<SLASH>> \o TopicOf(Tail(segs))

(***************************************************************************)
(* Inbound payloads.  msg.payload is a byte string: either bytes that are  *)
(* not valid UTF-8, or the UTF-8 encoding of a text.  A text is described  *)
(* by its JSON reading: no JSON at all, a JSON number, a JSON object       *)
(* without a "timestamp" member, or a JSON object with one.                *)
(***************************************************************************)
Text(form, has_ts, ts) == [form |-> form, has_ts |-> has_ts, ts |-> ts]
Bytes(utf8, text) == [utf8 |-> utf8, text |-> text]

NoTs == [type |-> "absent"]
Num(hi, lo) == [type |-> "int", v |-> [hi |-> hi, lo |-> lo]]

INVALID_UTF8 == Bytes(FALSE, Text("none", FALSE, NoTs))     \* b'\xff\xfe'
PLAIN_TEXT == Bytes(TRUE, Text("not_json", FALSE, NoTs))    \* b'online'
JSON_NUMBER == Bytes(TRUE, Text("number", FALSE, NoTs))     \* b'21.5'
JSON_OBJECT == Bytes(TRUE, Text("object", FALSE, NoTs))     \* b'{"celsius": 21.5}'
JsonWithTimestamp(ts) == Bytes(TRUE, Text("object", TRUE, ts))  \* b'{"timestamp": <ts>}'

\* payload.decode('utf-8')
Utf8Decode(raw) ==
    IF raw.utf8 THEN Ok(raw.text) ELSE Raise("UnicodeDecodeError")

\* json.loads(payload)
JsonLoads(text) ==
    CASE text.form = "object" ->
            Ok([type |-> "dict", has_ts |-> text.has_ts, ts |-> text.ts])
      [] text.form = "number" -> Ok([type |-> "float"])
      [] OTHER -> Raise("JSONDecodeError")

\* try: payload_json = json.loads(payload)
\* except json.JSONDecodeError: payload_json = payload
ParsePayload(text) ==
    LET r == JsonLoads(text)
    IN  IF r.ok THEN Ok(r.val)
        ELSE IF Catches({"JSONDecodeError"}, r.exc)
             THEN Ok([type |-> "str", text |-> text])
             ELSE r

(***************************************************************************)
(* Topic decoding.                                                         *)
(***************************************************************************)
DeviceName(topic_parts) ==
    IF Len(topic_parts) > 1 THEN topic_parts[2] ELSE UNKNOWN

\* Mutant: topic_parts[-1] instead of topic_parts[2].
MessageType_LastSegment(topic_parts) ==
    IF Len(topic_parts) > 2 THEN topic_parts[Len(topic_parts)] ELSE UNKNOWN

MessageType(topic_parts) ==
    IF Len(topic_parts) > 2 THEN topic_parts[3] ELSE UNKNOWN

(***************************************************************************)
(* Effective timestamp.                                                    *)
(***************************************************************************)
\* ts_value > n, for a number n: the comparison of Python 3
PyGreater(ts_value, n) ==
    CASE ts_value.type = "int" -> Ok(Gt(ts_value.v, n))
      [] ts_value.type = "inf" -> Ok(TRUE)
      [] OTHER -> Raise("TypeError")     \* str, None, list against int

\* datetime.fromtimestamp(ts_value / 1000, tz=timezone.utc).isoformat()
FromTimestampMillis(ts_value) ==
    CASE ts_value.type = "inf" -> Raise("OverflowError")
      [] ts_value.type = "int" /\ Gt(ts_value.v, DATETIME_MAX_MS) -> Raise("ValueError")
      [] OTHER -> Ok(ts_value.v)

\* Mutant: ">=" instead of ">" at the millisecond threshold.
ConvertTimestamp_Inclusive(ts_value, now) ==
    LET millis == PyGreater(ts_value, TS_MILLIS_THRESHOLD)
        uptime == PyGreater(ts_value, ZERO)
    IN  IF ~millis.ok THEN millis
        ELSE IF millis.val \/ ts_value.v = TS_MILLIS_THRESHOLD
             THEN FromTimestampMillis(ts_value)
        ELSE IF ~uptime.ok THEN uptime
        ELSE Ok(now)

\* Mutant: an uptime is converted like an absolute time.
ConvertTimestamp_UptimeAsEpoch(ts_value, now) ==
    LET millis == PyGreater(ts_value, TS_MILLIS_THRESHOLD)
        uptime == PyGreater(ts_value, ZERO)
    IN  IF ~millis.ok THEN millis
        ELSE IF millis.val THEN FromTimestampMillis(ts_value)
        ELSE IF ~uptime.ok THEN uptime
        ELSE IF uptime.val THEN FromTimestampMillis(ts_value)
        ELSE Ok(now)

\* the body of the inner try
ConvertTimestamp(ts_value, now) ==
    LET millis == PyGreater(ts_value, TS_MILLIS_THRESHOLD)
        uptime == PyGreater(ts_value, ZERO)
    IN  IF ~millis.ok THEN millis
        ELSE IF millis.val THEN FromTimestampMillis(ts_value)
        ELSE IF ~uptime.ok THEN uptime
        ELSE IF uptime.val THEN Ok(now)
        ELSE Ok(now)

\* device_timestamp as computed by lines 92-105
DeviceTimestamp(payload_json, now) ==
    IF payload_json.type = "dict" /\ payload_json.has_ts
    THEN LET r == ConvertTimestamp(payload_json.ts, now)
         IN  IF r.ok THEN r
             ELSE IF Catches({"ValueError", "OSError"}, r.exc) THEN Ok(now)
             ELSE r
    ELSE Ok(now)

(***************************************************************************)
(* The history and the device state store.                                 *)
(***************************************************************************)
MessageData(topic, payload_json, now, device_name, message_type) ==
    [topic |-> topic, payload |-> payload_json, timestamp |-> now,
     device |-> device_name, type |-> message_type]

\* Mutant: the history grows without eviction (the pop(0) is missing).
StoreMessage_NoEvict(msgs, message_data) == Append(msgs, message_data)

\* Mutant: pop() instead of pop(0): the newest message is evicted.
StoreMessage_PopNewest(msgs, message_data) ==
    LET appended == Append(msgs, message_data)
    IN  IF Len(appended) > max_messages
        THEN SubSeq(appended, 1, Len(appended) - 1)
        ELSE appended

\* self.messages.append(message_data); pop(0) when over max_messages
StoreMessage(msgs, message_data) ==
    LET appended == Append(msgs, message_data)
    IN  IF Len(appended) > max_messages THEN Tail(appended) ELSE appended

EmptyDict == <<>>

\* dict[key] = value
DictSet(dict, key, value) == (key :> value) @@ dict

\* if device_name not in self.device_states: self.device_states[device_name] = {}
EnsureDevice(states, device_name) ==
    IF device_name \in DOMAIN states THEN states
    ELSE DictSet(states, device_name, EmptyDict)

\* lines 107-110 had they assigned the device's dict anew:
\* self.device_states[device_name] = {message_type: {...}}
SetKind_ReplaceState(state, message_type, payload_json, device_timestamp) ==
    (message_type :> [payload |-> payload_json, timestamp |-> device_timestamp])

\* self.device_states[device_name][message_type] = {...}
SetKind(state, message_type, payload_json, device_timestamp) ==
    DictSet(state, message_type,
            [payload |-> payload_json, timestamp |-> device_timestamp])

\* self.device_states[device_name]['last_seen'] = device_timestamp
SetLastSeen(state, device_timestamp) ==
    DictSet(state, LAST_SEEN, device_timestamp)

UpdateDeviceState(states, device_name, message_type, payload_json, device_timestamp) ==
    LET s1 == SetKind(states[device_name], message_type, payload_json, device_timestamp)
        s2 == SetLastSeen(s1, device_timestamp)
    IN  DictSet(states, device_name, s2)

Event(name, data) == [event |-> name, data |-> data]

\* Mutant: the handler catches only what the inner try catches.
OUTER_EXCEPT_Narrow == {"ValueError", "OSError"}

\* "except Exception" around the whole handler
OUTER_EXCEPT == {"Exception"}

(***************************************************************************)
(* MQTTClient.on_message as a function of the store: the store it leaves   *)
(* behind, the events it emitted, the exception raised inside the try      *)
(* ("None" if none) and whether that exception left the handler.           *)
(***************************************************************************)
Failed(msgs, states, exc) ==
    [messages |-> msgs, device_states |-> states, emitted |-> <<>>,
     raised |-> exc, propagated |-> ~Catches(OUTER_EXCEPT, exc)]

OnMessage(msgs, states, topic, raw, now) ==
    LET decoded == Utf8Decode(raw)
    IN  IF ~decoded.ok THEN Failed(msgs, states, decoded.exc)
        ELSE
        LET parsed == ParsePayload(decoded.val)
        IN  IF ~parsed.ok THEN Failed(msgs, states, parsed.exc)
            ELSE
            LET payload_json == parsed.val
                topic_parts == Split(topic, SLASH)
                device_name == DeviceName(topic_parts)
                message_type == MessageType(topic_parts)
                message_data == MessageData(topic, payload_json, now,
                                            device_name, message_type)
                msgs1 == StoreMessage(msgs, message_data)
                states1 == EnsureDevice(states, device_name)
                ts == DeviceTimestamp(payload_json, now)
            IN  IF ~ts.ok THEN Failed(msgs1, states1, ts.exc)
                ELSE
                LET states2 == UpdateDeviceState(states1, device_name, message_type,
                                                 payload_json, ts.val)
                IN  [messages |-> msgs1, device_states |-> states2,
                     emitted |-> << Event("mqtt_message", message_data),
                                    Event("device_update",
                                          [device |-> device_name,
                                           state |-> states2[device_name]]) >>,
                     raised |-> "None", propagated |-> FALSE]

get_recent_messages == messages
get_device_states == device_states

(***************************************************************************)
(* Inputs explored.                                                        *)
(***************************************************************************)
PUMP == <<"Pump", "-", "House">>
CAM == <<"garage", "-", "cam">>
STATUS == <<"status">>
EXTRA == <<"extra">>

TopicSegments ==
    { <<MQTT_BASE_TOPIC>>,
      <<MQTT_BASE_TOPIC, PUMP>>,
      <<MQTT_BASE_TOPIC, PUMP, STATUS>>,
      <<MQTT_BASE_TOPIC, PUMP, LAST_SEEN>>,
      <<MQTT_BASE_TOPIC, CAM, STATUS, EXTRA>> }

NumericTimestamps ==
    { Num(0, 0),                \* 0
      Num(0, 3600),             \* 3600: an uptime
      Num(1000000, 0),          \* 10^12: the boundary
      Num(1000000, 1),          \* 10^12 + 1
      Num(1700000, 0),          \* 1700000000000: a time in 2023
      Num(1900000, 0) }         \* 1900000000000: a time in 2030

UnconvertibleTimestamps ==
    { Num(1000000000, 0),       \* 10^15 ms: a year after 9999
      [type |-> "inf"],         \* 1e999
      [type |-> "str"],         \* "2023-11-14T22:13:20Z"
      [type |-> "NoneType"] }   \* null

Payloads ==
    {INVALID_UTF8, PLAIN_TEXT, JSON_NUMBER, JSON_OBJECT}
    \cup {JsonWithTimestamp(ts) : ts \in NumericTimestamps \cup UnconvertibleTimestamps}

\* every topic shape with a structured payload, every payload on the ordinary
\* topic
Inputs ==
    (TopicSegments \X {JSON_OBJECT})
    \cup ({<<MQTT_BASE_TOPIC, PUMP, STATUS>>} \X Payloads)

(***************************************************************************)
(* The state machine.                                                      *)
(***************************************************************************)
NOW0 == [hi |-> 1790000, lo |-> 0]      \* an instant in 2026

NoCall == [called |-> FALSE, raised |-> "None"]

\* websocket clients that may attach
Sids == {1, 2}

NoEvents == [s \in Sids |-> <<>>]
NoRequest == [op |-> "none"]
Idle == [at |-> "idle"]

\* socketio.emit(...) of the server object: to every attached client
SocketIOEmit(clients, events) ==
    [s \in Sids |-> IF s \in clients THEN events ELSE <<>>]

\* flask_socketio.emit(...) inside a websocket handler: to request.sid alone
Emit(sid, events) ==
    [s \in Sids |-> IF s = sid THEN events ELSE <<>>]

\* keys of the dict `states` in insertion order, `order` being that of the
\* dict before at most one key was added
KeysInOrder(order, states) ==
    LET new == DOMAIN states \ {order[i] : i \in 1..Len(order)}
    IN  IF new = {} THEN order ELSE Append(order, CHOOSE k \in new : TRUE)

\* The store after a backlog of n <= max_messages deliveries of one message
\* (PLAIN_TEXT on the base topic) at the instant NOW0: the history holds the n
\* copies and every delivery writes the same device state.
Backlog(n) ==
    LET once == OnMessage(<<>>, EmptyDict, TopicOf(<<MQTT_BASE_TOPIC>>), PLAIN_TEXT, NOW0)
    IN  IF n = 0 THEN [messages |-> <<>>, device_states |-> EmptyDict]
        ELSE [messages |-> [i \in 1..n |-> once.messages[1]],
              device_states |-> once.device_states]

BacklogSizes == {0, max_messages - 1}

Init ==
    \E n \in BacklogSizes :
        LET b == Backlog(n)
        IN  /\ messages = b.messages
            /\ device_states = b.device_states
            /\ arrived = b.messages
            /\ emitted = <<>>
            /\ clock = NOW0
            /\ last = NoCall
            /\ ncalls = 0
            /\ device_order = KeysInOrder(<<>>, b.device_states)
            /\ pc = "serving"
            /\ mqtt_client = "MQTTClient"
            /\ is_connected = TRUE
            /\ loop_running = TRUE
            /\ observers = {}
            /\ outbox = NoEvents
            /\ published = <<>>
            /\ handled = NoRequest
            /\ ingest = Idle
            /\ request = Idle
            /\ channel = NoEvents

\* the receive loop delivers one inbound message to on_message
on_message(segs, raw) ==
    /\ pc = "serving"
    /\ mqtt_client = "MQTTClient"
    /\ loop_running
    /\ is_connected
    /\ ncalls < MaxIngest
    /\ LET topic == TopicOf(segs)
           r == OnMessage(messages, device_states, topic, raw, clock)
       IN  /\ messages' = r.messages
           /\ device_states' = r.device_states
           /\ emitted' = r.emitted
           /\ last' = [called |-> TRUE, segs |-> segs, topic |-> topic, raw |-> raw,
                       now |-> clock, raised |-> r.raised,
                       propagated |-> r.propagated, prev_raised |-> last.raised]
           /\ arrived' = IF raw.utf8
                         THEN Append(arrived,
                                     MessageData(topic, ParsePayload(raw.text).val, clock,
                                                 DeviceName(segs), MessageType(segs)))
                         ELSE arrived
           /\ device_order' = KeysInOrder(device_order, r.device_states)
           /\ outbox' = SocketIOEmit(observers, r.emitted)
    /\ ncalls' = ncalls + 1
    /\ published' = <<>>
    /\ handled' = [op |-> "on_message"]
    /\ UNCHANGED <<threads, clock, pc, mqtt_client, loop_running, is_connected, observers>>

Tick ==
    /\ clock.lo < MaxTick
    /\ clock' = [clock EXCEPT !.lo = @ + 1]
    /\ UNCHANGED <<threads, store, pc, mqtt_client, loop_running, is_connected, observers, outbox,
                   published, handled>>

Receive == \E inp \in Inputs : on_message(inp[1], inp[2])

Next == Receive \/ Tick

Spec == Init /\ [][Next]_vars

(***************************************************************************)
(* What the claims speak about.                                            *)
(***************************************************************************)
Newest == messages[Len(messages)]

\* device identifier and kind of the latest message, read off the segments
\* its topic was built from
SentDevice == IF Len(last.segs) >= 2 THEN last.segs[2] ELSE UNKNOWN
SentKind == IF Len(last.segs) >= 3 THEN last.segs[3] ELSE UNKNOWN

HasLastSeen(states, d) == d \in DOMAIN states /\ LAST_SEEN \in DOMAIN states[d]

\* the payload is a JSON object whose timestamp member is a number
NumericTs(raw) == raw.utf8 /\ raw.text.has_ts /\ raw.text.ts.type = "int"

\* the payload is a JSON object whose timestamp member is a number above 10^12
\* that is a representable time
ReportsAbsoluteTime(raw) ==
    /\ NumericTs(raw)
    /\ LET v == raw.text.ts.v
       IN  /\ v.hi > 1000000 \/ (v.hi = 1000000 /\ v.lo > 0)
           /\ v.hi < 253402300 \/ (v.hi = 253402300 /\ v.lo <= 799999)

\* the payload's timestamp member is not a number, or a number no time stands for
MalformedTs(raw) ==
    /\ raw.utf8
    /\ raw.text.has_ts
    /\ raw.text.ts \in UnconvertibleTimestamps

\* the effective timestamp section 4.2 of the specification gives the latest message
EffectiveTimestamp ==
    IF ReportsAbsoluteTime(last.raw) THEN last.raw.text.ts.v ELSE last.now

\* the latest message is the newest of the history
Appended ==
    /\ Len(messages) > 0
    /\ Newest.topic = last.topic
    /\ Newest.timestamp = last.now
    /\ Newest.device = SentDevice
    /\ Newest.type = SentKind

\* the device's kind entry holds the latest message
KindRecorded ==
    /\ SentDevice \in DOMAIN device_states
    /\ SentKind \in DOMAIN device_states[SentDevice]
    /\ device_states[SentDevice][SentKind] =
           [payload |-> Newest.payload, timestamp |-> EffectiveTimestamp]

LastSeenRecorded ==
    /\ HasLastSeen(device_states, SentDevice)
    /\ device_states[SentDevice][LAST_SEEN] = EffectiveTimestamp

\* a device_update carrying the device's state was emitted for the latest message
Broadcast ==
    /\ SentDevice \in DOMAIN device_states
    /\ \E i \in 1..Len(emitted) :
           emitted[i] = Event("device_update",
                              [device |-> SentDevice, state |-> device_states[SentDevice]])

(***************************************************************************)
(* C1: after any sequence of on_message calls the history holds at most    *)
(* max_messages (100) messages.                                            *)
(***************************************************************************)
C1_HistoryWithinCapacity == Len(messages) <= max_messages

\* the history is full after a message was evicted
C1_Witness ==
    /\ last.called
    /\ Len(arrived) > max_messages
    /\ Len(messages) = max_messages

(***************************************************************************)
(* C2: get_recent_messages() is the last min(n, max_messages) of the n     *)
(* decodable messages received, in arrival order, oldest first.            *)
(***************************************************************************)
C2_RecentIsTailOfArrivals ==
    LET n == Len(arrived)
        kept == IF n < max_messages THEN n ELSE max_messages
    IN  get_recent_messages = SubSeq(arrived, n - kept + 1, n)

\* a message was evicted and the newest one is the last element
C2_Witness ==
    /\ last.called
    /\ last.raw.utf8
    /\ Len(arrived) = max_messages + 1
    /\ Appended
    /\ messages[1] = arrived[2]

(***************************************************************************)
(* C3 (as claimed): when on_message returns, last_seen of the message's    *)
(* device equals the effective timestamp of the message, for any kind and  *)
(* any payload.                                                            *)
(***************************************************************************)
C3_LastSeenOnEveryIngest == last.called => LastSeenRecorded

(***************************************************************************)
(* C4 (as claimed): after the ingest of a message of kind k with decoded   *)
(* payload p, kinds[k] of its device is {p, effective timestamp}, for      *)
(* every kind string, 'last_seen' included.  Stated for the calls that     *)
(* ran to the end.                                                         *)
(***************************************************************************)
C4_KindEntryForEveryKind ==
    (last.called /\ last.raised = "None") => KindRecorded

(***************************************************************************)
(* C5 (as claimed): no ingest sets a device's last_seen to an earlier time *)
(* than its previous value.                                                *)
(***************************************************************************)
C5_LastSeenNeverRegresses ==
    [][\A d \in DOMAIN device_states :
           HasLastSeen(device_states, d) =>
               /\ HasLastSeen(device_states', d)
               /\ Leq(device_states[d][LAST_SEEN], device_states'[d][LAST_SEEN])]_vars

(***************************************************************************)
(* C5 (amended): under a clock that does not run backwards, an ingest      *)
(* whose effective timestamp is the receipt time never sets last_seen      *)
(* earlier than its previous value, unless that previous value is a        *)
(* device-reported time ahead of the clock; an ingest whose payload        *)
(* reports an absolute time (timestamp > 10^12) sets last_seen to that     *)
(* time, earlier or not.                                                   *)
(***************************************************************************)
C5_ReceiptTimesNeverRegress ==
    [][ncalls' = ncalls + 1 =>
          /\ \A d \in DOMAIN device_states :
                 ( /\ HasLastSeen(device_states, d)
                   /\ ~ReportsAbsoluteTime(last'.raw)
                   /\ Leq(device_states[d][LAST_SEEN], clock) )
                 => /\ HasLastSeen(device_states', d)
                    /\ Leq(device_states[d][LAST_SEEN], device_states'[d][LAST_SEEN])
          /\ ReportsAbsoluteTime(last'.raw) =>
                 /\ HasLastSeen(device_states', SentDevice')
                 /\ device_states'[SentDevice'][LAST_SEEN] = last'.raw.text.ts.v]_vars

\* a device seen in the backlog is seen again, one tick later, at receipt time
C5_Witness ==
    /\ last.called
    /\ last.raised = "None"
    /\ ~ReportsAbsoluteTime(last.raw)
    /\ SentDevice = UNKNOWN
    /\ Len(arrived) > max_messages
    /\ Gt(last.now, NOW0)
    /\ device_states[UNKNOWN][LAST_SEEN] = last.now

(***************************************************************************)
(* C6: for a structured payload with numeric timestamp v the effective     *)
(* timestamp is the time v ms after the epoch when v > 10^12 and the       *)
(* receipt time when v <= 10^12 (v = 10^12 and v <= 0 included); for a     *)
(* payload that is no structured object or has no timestamp it is the      *)
(* receipt time.  (Numbers no time stands for are C7's.)                   *)
(***************************************************************************)
C6_ThreeWaySplit ==
    (last.called /\ last.raw.utf8 /\ ~MalformedTs(last.raw)) =>
        /\ HasLastSeen(device_states, SentDevice)
        /\ LET eff == device_states[SentDevice][LAST_SEEN]
               v == last.raw.text.ts.v
           IN  IF NumericTs(last.raw)
               THEN IF v.hi > 1000000 \/ (v.hi = 1000000 /\ v.lo > 0)
                    THEN eff = v
                    ELSE eff = last.now
               ELSE eff = last.now

\* the boundary value 10^12 was ingested after the clock moved
C6_Witness ==
    /\ last.called
    /\ NumericTs(last.raw)
    /\ last.raw.text.ts.v = [hi |-> 1000000, lo |-> 0]
    /\ Gt(last.now, NOW0)
    /\ LastSeenRecorded

(***************************************************************************)
(* C7 (as claimed): a message whose timestamp member is not a number or    *)
(* cannot be converted is ingested with the receipt time: kind entry and   *)
(* last_seen are updated and the update is broadcast.                      *)
(***************************************************************************)
C7_MalformedTimestampFallsBack ==
    (last.called /\ MalformedTs(last.raw)) =>
        /\ Appended
        /\ KindRecorded
        /\ LastSeenRecorded
        /\ device_states[SentDevice][LAST_SEEN] = last.now
        /\ Broadcast

(***************************************************************************)
(* C8: the device identifier is the second '/'-separated segment of the    *)
(* topic and the kind the third, whatever follows; 'unknown' stands for a  *)
(* missing second or third segment.                                        *)
(***************************************************************************)
C8_TopicDecoding ==
    (last.called /\ last.raw.utf8) =>
        /\ Len(messages) > 0
        /\ Newest.topic = last.topic
        /\ Newest.device = (IF Len(last.segs) >= 2 THEN last.segs[2] ELSE UNKNOWN)
        /\ Newest.type = (IF Len(last.segs) >= 3 THEN last.segs[3] ELSE UNKNOWN)
        /\ Newest.device \in DOMAIN device_states

\* a topic with a fourth segment was decoded
C8_Witness ==
    /\ last.called
    /\ last.raw.utf8
    /\ Len(last.segs) = 4
    /\ Newest.device = CAM
    /\ Newest.type = STATUS

(***************************************************************************)
(* C9 (as claimed): no inbound payload is dropped for being unparseable:   *)
(* valid JSON, text that is no JSON and bytes that are no text are all     *)
(* appended to the history and recorded in the device state, and decoding  *)
(* raises nothing.  (Payloads with a malformed timestamp are C7's.)        *)
(***************************************************************************)
C9_NoPayloadDropped ==
    (last.called /\ ~MalformedTs(last.raw)) =>
        /\ last.raised = "None"
        /\ Appended
        /\ SentDevice \in DOMAIN device_states
        /\ SentKind \in DOMAIN device_states[SentDevice]

(***************************************************************************)
(* C10: on_message returns normally for every topic and payload, and the   *)
(* well-formed message that follows a message whose processing raised is   *)
(* ingested normally: appended to the history, recorded in the device      *)
(* state (last_seen, and the kind entry when the kind is not the key       *)
(* 'last_seen' itself), and broadcast.                                     *)
(***************************************************************************)
WellFormed(raw) == raw.utf8 /\ ~MalformedTs(raw)

C10_FailuresStayInside ==
    last.called =>
        /\ ~last.propagated
        /\ (last.prev_raised # "None" /\ WellFormed(last.raw)) =>
               /\ last.raised = "None"
               /\ Appended
               /\ LastSeenRecorded
               /\ SentKind # LAST_SEEN => KindRecorded
               /\ Broadcast

\* a well-formed message was ingested right after one that raised a TypeError
C10_Witness ==
    /\ last.called
    /\ last.prev_raised = "TypeError"
    /\ WellFormed(last.raw)
    /\ Appended
    /\ Broadcast

(***************************************************************************)
(* C11 (as claimed): when processing an inbound message raises, the        *)
(* message is dropped as a whole: history and device states are after the  *)
(* call what they were before it, and no event is emitted.                 *)
(***************************************************************************)
C11_RaisingMessageDroppedWhole ==
    [][(ncalls' = ncalls + 1 /\ last'.raised # "None") =>
          /\ messages' = messages
          /\ device_states' = device_states
          /\ emitted' = <<>>]_vars

(***************************************************************************)
(* GET /api/devices (app.py, get_devices): the roster read from the        *)
(* inventory file is reconciled with the live device states.               *)
(***************************************************************************)
SPACE == " "
HYPHEN == "-"

\* str.replace(old, new) for one-character separators old and new
Replace(s, old, new) == [i \in 1..Len(s) |-> IF s[i] = old THEN new ELSE s[i]]

\* ord() of the first character of a token
Ord(token) ==
    CASE token = " " -> 32
      [] token = "-" -> 45
      [] token = "Attic" -> 65
      [] token = "House" -> 72
      [] token = "Pump" -> 80
      [] token = "cam" -> 99
      [] token = "garage" -> 103
      [] token = "unknown" -> 117

\* a < b for Python strs: at the first position where they differ the smaller
\* character decides, and a proper prefix is smaller.  (No two tokens in use
\* start with the same character, so the first differing token decides as its
\* first character does.)
RECURSIVE StrLess(_, _)
StrLess(a, b) ==
    IF b = <<>> THEN FALSE
    ELSE IF a = <<>> THEN TRUE
    ELSE IF Head(a) = Head(b) THEN StrLess(Tail(a), Tail(b))
    ELSE Ord(Head(a)) < Ord(Head(b))

\* the sort key of line 131, (not d.get('online', False), d['name']), and the
\* order of Python tuples on it (False < True)
SortKey(d) == [offline |-> ~d.online, name |-> d.name]

KeyLess(j, k) ==
    \/ ~j.offline /\ k.offline
    \/ j.offline = k.offline /\ StrLess(j.name, k.name)

\* list.sort(key=...): ascending and stable, i.e. elements with equal keys
\* keep their order.  Insertion of d behind every element whose key is not
\* greater than d's.
RECURSIVE InsertSorted(_, _)
InsertSorted(sorted, d) ==
    IF sorted = <<>> THEN <<d>>
    ELSE IF KeyLess(SortKey(d), SortKey(Head(sorted)))
         THEN <<d>> \o sorted
         ELSE <<Head(sorted)>> \o InsertSorted(Tail(sorted), d)

SortDevices_Unsorted(list) == list

RECURSIVE SortDevices(_)
SortDevices(list) ==
    IF list = <<>> THEN <<>>
    ELSE InsertSorted(SortDevices(SubSeq(list, 1, Len(list) - 1)), list[Len(list)])

\* lines 103-106: the roster entry with the live state attached
Enriched(device, states, mqtt_name) ==
    [name |-> device.name, chip_id |-> device.chip_id,
     platform |-> device.platform, display |-> device.display,
     ip |-> device.ip, status |-> device.status,
     last_update |-> device.last_update,
     mqtt_state |-> states[mqtt_name], mqtt_name |-> mqtt_name, online |-> TRUE]

\* lines 97-100: the key looked up for a roster name
MqttName_HyphenFirst(device_name, states) ==
    IF Replace(device_name, SPACE, HYPHEN) \in DOMAIN states
    THEN Replace(device_name, SPACE, HYPHEN)
    ELSE device_name

MqttName(device_name, states) ==
    IF device_name \notin DOMAIN states
    THEN Replace(device_name, SPACE, HYPHEN)
    ELSE device_name

\* the loop of lines 93-112 had it kept the roster entries it cannot match
RECURSIVE EnrichRoster_KeepUnmatched(_, _, _)
EnrichRoster_KeepUnmatched(devices, states, n) ==
    IF n = 0 THEN [enriched |-> <<>>, matched |-> {}]
    ELSE
    LET prev == EnrichRoster_KeepUnmatched(devices, states, n - 1)
        device == devices[n]
        mqtt_name == MqttName(device.name, states)
    IN  IF mqtt_name \in DOMAIN states
        THEN [enriched |-> Append(prev.enriched, Enriched(device, states, mqtt_name)),
              matched |-> prev.matched \cup {mqtt_name}]
        ELSE [enriched |-> Append(prev.enriched,
                                  [Enriched(device, (mqtt_name :> EmptyDict), mqtt_name)
                                       EXCEPT !.online = FALSE]),
              matched |-> prev.matched]

\* lines 93-112, the loop over the first n roster entries: the devices
\* appended and the set matched_mqtt_devices
RECURSIVE EnrichRoster(_, _, _)
EnrichRoster(devices, states, n) ==
    IF n = 0 THEN [enriched |-> <<>>, matched |-> {}]
    ELSE
    LET prev == EnrichRoster(devices, states, n - 1)
        device == devices[n]
        device_name == device.name
        mqtt_name == MqttName(device_name, states)
    IN  IF mqtt_name \in DOMAIN states
        THEN [enriched |-> Append(prev.enriched, Enriched(device, states, mqtt_name)),
              matched |-> prev.matched \cup {mqtt_name}]
        ELSE IF device_name \in DOMAIN states
        THEN [enriched |-> Append(prev.enriched, Enriched(device, states, device_name)),
              matched |-> prev.matched \cup {device_name}]
        ELSE prev

\* the entry of lines 118-128 had it shown the identifier as it is
Synthesized_RawName(mqtt_name, state) ==
    [name |-> mqtt_name,
     chip_id |-> "Unknown", platform |-> "Unknown", display |-> "Unknown",
     ip |-> "Unknown", status |-> "Active",
     mqtt_state |-> state, mqtt_name |-> mqtt_name, online |-> TRUE]

\* lines 118-128: the entry made up for a live device the roster lacks
Synthesized(mqtt_name, state) ==
    [name |-> Replace(mqtt_name, HYPHEN, SPACE),
     chip_id |-> "Unknown", platform |-> "Unknown", display |-> "Unknown",
     ip |-> "Unknown", status |-> "Active",     \* the label of line 124
     mqtt_state |-> state, mqtt_name |-> mqtt_name, online |-> TRUE]

\* the loop of lines 115-128 had it not skipped the matched identifiers
RECURSIVE AddUnmatched_All(_, _, _, _, _)
AddUnmatched_All(enriched, matched, states, order, n) ==
    IF n = 0 THEN enriched
    ELSE Append(AddUnmatched_All(enriched, matched, states, order, n - 1),
                Synthesized(order[n], states[order[n]]))

\* lines 115-128, the loop over the first n items of the dict
RECURSIVE AddUnmatched(_, _, _, _, _)
AddUnmatched(enriched, matched, states, order, n) ==
    IF n = 0 THEN enriched
    ELSE
    LET prev == AddUnmatched(enriched, matched, states, order, n - 1)
        mqtt_name == order[n]
    IN  IF mqtt_name \notin matched
        THEN Append(prev, Synthesized(mqtt_name, states[mqtt_name]))
        ELSE prev

\* get_devices without its I/O: the list handed to jsonify for the roster
\* `devices` and the dict `states` whose keys were inserted in `order`
GetDevices(devices, states, order) ==
    LET r == EnrichRoster(devices, states, Len(devices))
    IN  SortDevices(AddUnmatched(r.enriched, r.matched, states, order, Len(order)))

(***************************************************************************)
(* Inputs of the web server.                                               *)
(***************************************************************************)
PUMP_SPACED == <<"Pump", " ", "House">>
CAM_SPACED == <<"garage", " ", "cam">>
ATTIC == <<"Attic">>

\* a row of the inventory table as load_device_inventory returns it
RosterEntry(name, chip_id) ==
    [name |-> name, chip_id |-> chip_id, platform |-> "ESP8266",
     display |-> "OLED", ip |-> "192.168.0.2", status |-> "Deployed",
     last_update |-> "N/A"]

Rosters ==
    { <<>>,
      << RosterEntry(PUMP_SPACED, "A1") >>,
      << RosterEntry(PUMP_SPACED, "A1"), RosterEntry(PUMP, "B2") >>,
      << RosterEntry(ATTIC, "C3"), RosterEntry(CAM, "D4") >> }

\* status messages of four devices, and one whose timestamp is a string
ServerInputs ==
    ({<<MQTT_BASE_TOPIC, d, STATUS>> : d \in {PUMP, PUMP_SPACED, CAM, CAM_SPACED}}
         \X {JSON_OBJECT})
    \cup {<< <<MQTT_BASE_TOPIC, PUMP, STATUS>>, JsonWithTimestamp([type |-> "str"]) >>}

ReturnCodes == {0, 5}       \* CONNACK accepted; refused, not authorised

RESTART == <<"restart">>
EMPTY == <<>>               \* the str ''

\* bodies of a command request: complete, with an empty device or command,
\* and with the device or the command missing
CommandData ==
    { [device |-> PUMP, command |-> RESTART],
      [device |-> EMPTY, command |-> RESTART],
      [device |-> PUMP, command |-> EMPTY],
      [device |-> PUMP],
      [command |-> RESTART] }

(***************************************************************************)
(* The web server: app.py's main(), the broker callbacks of MQTTClient     *)
(* and the request handlers.                                               *)
(***************************************************************************)
InitServer ==
    /\ messages = <<>>
    /\ device_states = EmptyDict
    /\ device_order = <<>>
    /\ arrived = <<>>
    /\ emitted = <<>>
    /\ clock = NOW0
    /\ last = NoCall
    /\ ncalls = 0
    /\ pc = "main"
    /\ mqtt_client = "None"
    /\ is_connected = FALSE
    /\ loop_running = FALSE
    /\ observers = {}
    /\ outbox = NoEvents
    /\ published = <<>>
    /\ handled = NoRequest
    /\ ingest = Idle
    /\ request = Idle
    /\ channel = NoEvents

\* main() had it no try around mqtt_client.connect(): the exception ends the
\* process
main_Uncaught(connect_raises) ==
    /\ pc = "main"
    /\ pc' = IF connect_raises THEN "crashed" ELSE "serving"
    /\ mqtt_client' = "MQTTClient"
    /\ loop_running' = ~connect_raises
    /\ handled' = [op |-> "main", connect_raises |-> connect_raises]
    /\ UNCHANGED <<threads, store, clock, is_connected, observers, outbox, published>>

\* main(), lines 344-353: the client is created and connect() either returns,
\* the network loop started, or raises, and then the server runs
main(connect_raises) ==
    /\ pc = "main"
    /\ pc' = "serving"
    /\ mqtt_client' = IF connect_raises THEN "None" ELSE "MQTTClient"
    /\ loop_running' = ~connect_raises
    /\ handled' = [op |-> "main", connect_raises |-> connect_raises]
    /\ UNCHANGED <<threads, store, clock, is_connected, observers, outbox, published>>

\* the dict of line 34 or 41
ConnectStatus_AlwaysConnected(rc, now) ==
    [connected |-> TRUE, broker |-> "MQTT_BROKER", timestamp |-> now]

ConnectStatus(rc, now) ==
    IF rc = 0
    THEN [connected |-> TRUE, broker |-> "MQTT_BROKER", timestamp |-> now]
    ELSE [connected |-> FALSE, error |-> rc, timestamp |-> now]

\* the network loop received the broker's answer to CONNECT
on_connect(rc) ==
    /\ pc = "serving"
    /\ mqtt_client = "MQTTClient"
    /\ loop_running
    /\ ~is_connected
    /\ is_connected' = (rc = 0)
    /\ outbox' = SocketIOEmit(observers, << Event("mqtt_status", ConnectStatus(rc, clock)) >>)
    /\ published' = <<>>
    /\ handled' = [op |-> "on_connect", rc |-> rc]
    /\ UNCHANGED <<threads, store, clock, pc, mqtt_client, loop_running, observers>>

\* the network loop lost or closed the connection
on_disconnect ==
    /\ pc = "serving"
    /\ mqtt_client = "MQTTClient"
    /\ is_connected' = FALSE
    /\ outbox' = SocketIOEmit(observers,
                     << Event("mqtt_status", [connected |-> FALSE, timestamp |-> clock]) >>)
    /\ published' = <<>>
    /\ handled' = [op |-> "on_disconnect", was_connected |-> is_connected]
    /\ UNCHANGED <<threads, store, clock, pc, mqtt_client, loop_running, observers>>

\* mqtt_client.<method>(): an attribute of None raises
ClientAttr(client, value) ==
    IF client = "None" THEN Raise("AttributeError") ELSE Ok(value)

\* line 84: mqtt_client.get_device_states() if mqtt_client else {}
StatesRead(client, states) ==
    IF client # "None" THEN ClientAttr(client, states) ELSE Ok(EmptyDict)

\* line 138: mqtt_client.get_recent_messages() if mqtt_client else []
MessagesRead(client, msgs) ==
    IF client # "None" THEN ClientAttr(client, msgs) ELSE Ok(<<>>)

\* GET /api/devices; an exception leaving the view is answered with status 500
get_devices(devices) ==
    /\ pc = "serving"
    /\ LET read == StatesRead(mqtt_client, get_device_states)
           states == IF read.ok THEN read.val ELSE EmptyDict
           order == IF mqtt_client # "None" THEN device_order ELSE <<>>
       IN  handled' = [op |-> "get_devices", client |-> mqtt_client,
                       devices |-> devices,
                       states |-> states, order |-> order,
                       raised |-> IF read.ok THEN "None" ELSE read.exc,
                       status |-> IF read.ok THEN 200 ELSE 500,
                       body |-> IF read.ok THEN GetDevices(devices, states, order)
                                ELSE <<>>]
    /\ outbox' = NoEvents
    /\ published' = <<>>
    /\ UNCHANGED <<threads, store, clock, pc, mqtt_client, loop_running, is_connected, observers>>

\* GET /api/messages, lines 135-139
get_messages ==
    /\ pc = "serving"
    /\ LET read == MessagesRead(mqtt_client, get_recent_messages)
       IN  handled' = [op |-> "get_messages", client |-> mqtt_client,
                       raised |-> IF read.ok THEN "None" ELSE read.exc,
                       status |-> IF read.ok THEN 200 ELSE 500,
                       body |-> IF read.ok THEN read.val ELSE <<>>]
    /\ outbox' = NoEvents
    /\ published' = <<>>
    /\ UNCHANGED <<threads, store, clock, pc, mqtt_client, loop_running, is_connected, observers>>

\* a websocket client connects, lines 295-307
handle_connect(sid) ==
    /\ pc = "serving"
    /\ sid \notin observers
    /\ observers' = observers \cup {sid}
    /\ outbox' = IF mqtt_client # "None"
                 THEN Emit(sid, << Event("initial_state",
                                         [devices |-> get_device_states,
                                          messages |-> get_recent_messages,
                                          mqtt_connected |-> is_connected]) >>)
                 ELSE NoEvents
    /\ published' = <<>>
    /\ handled' = [op |-> "handle_connect", sid |-> sid, client |-> mqtt_client]
    /\ UNCHANGED <<threads, store, clock, pc, mqtt_client, loop_running, is_connected>>

\* an attached client's request_state event, lines 314-324
handle_request_state(sid) ==
    /\ pc = "serving"
    /\ sid \in observers
    /\ outbox' = IF mqtt_client # "None"
                 THEN Emit(sid, << Event("initial_state",
                                         [devices |-> get_device_states,
                                          messages |-> get_recent_messages,
                                          mqtt_connected |-> is_connected]) >>)
                 ELSE NoEvents
    /\ published' = <<>>
    /\ handled' = [op |-> "handle_request_state", sid |-> sid, client |-> mqtt_client]
    /\ UNCHANGED <<threads, store, clock, pc, mqtt_client, loop_running, is_connected, observers>>

\* a websocket client goes away, lines 309-312
handle_disconnect(sid) ==
    /\ pc = "serving"
    /\ sid \in observers
    /\ observers' = observers \ {sid}
    /\ outbox' = NoEvents
    /\ published' = <<>>
    /\ handled' = [op |-> "handle_disconnect", sid |-> sid]
    /\ UNCHANGED <<threads, store, clock, pc, mqtt_client, loop_running, is_connected>>

\* data.get(key): None for a missing key
NONE == [none |-> TRUE]
Get(data, key) ==
    IF key \in DOMAIN data THEN [none |-> FALSE, str |-> data[key]] ELSE NONE

\* truth value of None or a str
Truthy(v) == ~v.none /\ v.str # EMPTY

MQTT_ERR_SUCCESS == 0
MQTT_ERR_NO_CONN == 4

\* MQTT_COMMAND_TOPIC.format(device=device)
CommandTopic(device) == MQTT_BASE_TOPIC \o <<SLASH>> \o device \o <<SLASH, "command">>

\* publish_command, lines 158-168: the publish call made and the value
\* returned; client.publish answers MQTT_ERR_NO_CONN without a connection
PublishCommand(device, command, connected) ==
    LET rc == IF connected THEN MQTT_ERR_SUCCESS ELSE MQTT_ERR_NO_CONN
    IN  [call |-> [topic |-> CommandTopic(device), payload |-> command],
         returned |-> (rc = MQTT_ERR_SUCCESS)]

\* POST /api/command, lines 279-293
send_command(data) ==
    /\ pc = "serving"
    /\ LET device == Get(data, "device")
           command == Get(data, "command")
           p == PublishCommand(device.str, command.str, is_connected)
       IN  IF ~Truthy(device) \/ ~Truthy(command)
           THEN /\ published' = <<>>
                /\ handled' = [op |-> "send_command", data |-> data, status |-> 400,
                               body |-> [success |-> FALSE,
                                         error |-> "Device and command required"]]
           ELSE IF mqtt_client # "None"
           THEN /\ published' = <<p.call>>
                /\ handled' = [op |-> "send_command", data |-> data, status |-> 200,
                               body |-> [success |-> p.returned]]
           ELSE /\ published' = <<>>
                /\ handled' = [op |-> "send_command", data |-> data, status |-> 500,
                               body |-> [success |-> FALSE,
                                         error |-> "MQTT client not connected"]]
    /\ outbox' = NoEvents
    /\ UNCHANGED <<threads, store, clock, pc, mqtt_client, loop_running, is_connected, observers>>

\* a websocket client's send_command event, lines 326-334
handle_command(sid, data) ==
    /\ pc = "serving"
    /\ sid \in observers
    /\ LET device == Get(data, "device")
           command == Get(data, "command")
           p == PublishCommand(device.str, command.str, is_connected)
       IN  IF mqtt_client # "None" /\ Truthy(device) /\ Truthy(command)
           THEN /\ published' = <<p.call>>
                /\ outbox' = Emit(sid, << Event("command_response",
                                                [success |-> p.returned,
                                                 device |-> device.str,
                                                 command |-> command.str]) >>)
           ELSE /\ published' = <<>>
                /\ outbox' = NoEvents
    /\ handled' = [op |-> "handle_command", sid |-> sid, data |-> data,
                   client |-> mqtt_client]
    /\ UNCHANGED <<threads, store, clock, pc, mqtt_client, loop_running, is_connected, observers>>

\* the transport side of an MQTTClient: whether its network loop runs and
\* whether its session with the broker is established
Adapter == [loop |-> loop_running, connected |-> is_connected]

\* MQTTClient.disconnect had loop_stop() raised on a loop that does not run
Disconnect_RaisesWhenStopped(adapter) ==
    IF adapter.loop THEN Ok([loop |-> FALSE, connected |-> FALSE])
    ELSE Raise("RuntimeError")

\* MQTTClient.disconnect, lines 152-156: loop_stop() ends the network loop
\* and answers an error code when there is none; client.disconnect() closes
\* the session and answers an error code when there is none.  Neither
\* answer is looked at.
Disconnect(adapter) == Ok([loop |-> FALSE, connected |-> FALSE])

\* mqtt_client.disconnect() is called
disconnect ==
    /\ pc = "serving"
    /\ mqtt_client = "MQTTClient"
    /\ LET d == Disconnect(Adapter)
       IN  /\ loop_running' = IF d.ok THEN d.val.loop ELSE loop_running
           /\ is_connected' = IF d.ok THEN d.val.connected ELSE is_connected
           /\ handled' = [op |-> "disconnect", before |-> Adapter,
                          repeated |-> handled.op = "disconnect",
                          raised |-> IF d.ok THEN "None" ELSE d.exc]
    /\ outbox' = NoEvents
    /\ published' = <<>>
    /\ UNCHANGED <<threads, store, clock, pc, mqtt_client, observers>>

\* how a POST /api/config goes: answered 400 before line 237 (input refused,
\* test connection failed, .env not written), or the client is replaced and
\* the new client's connect() returns or raises
ConfigOutcomes == {"refused", "connected", "connect_raises"}

\* POST /api/config, lines 152-249
handle_config(outcome) ==
    /\ pc = "serving"
    /\ LET d == IF mqtt_client # "None" THEN Disconnect(Adapter) ELSE Ok(Adapter)
       IN  IF outcome = "refused" \/ ~d.ok
           THEN /\ handled' = [op |-> "handle_config", outcome |-> outcome,
                               status |-> 400, body |-> [success |-> FALSE]]
                /\ UNCHANGED <<messages, device_states, device_order, arrived,
                               mqtt_client, is_connected, loop_running>>
           ELSE \* lines 239-245: the old client is disconnected and dropped,
                \* with its history and device states; a new one is made
                /\ messages' = <<>>
                /\ device_states' = EmptyDict
                /\ device_order' = <<>>
                /\ arrived' = <<>>
                /\ mqtt_client' = "MQTTClient"
                /\ is_connected' = FALSE
                /\ loop_running' = (outcome = "connected")
                /\ handled' = [op |-> "handle_config", outcome |-> outcome,
                               status |-> IF outcome = "connected" THEN 200 ELSE 400,
                               body |-> [success |-> outcome = "connected"]]
    /\ outbox' = NoEvents
    /\ published' = <<>>
    /\ UNCHANGED <<threads, emitted, last, ncalls, clock, pc, observers>>

Start == \E connect_raises \in BOOLEAN : main(connect_raises)
Reconfigure == \E outcome \in ConfigOutcomes : handle_config(outcome)
Attach == \E sid \in Sids : handle_connect(sid)
Detach == \E sid \in Sids : handle_disconnect(sid)
HttpCommand == \E data \in CommandData : send_command(data)
SocketCommand == \E sid \in Sids, data \in CommandData : handle_command(sid, data)
Connack == \E rc \in ReturnCodes : on_connect(rc)
Ingest == \E inp \in ServerInputs : on_message(inp[1], inp[2])
Devices == \E devices \in Rosters : get_devices(devices)
RequestState == \E sid \in Sids : handle_request_state(sid)

NextServer ==
    \/ Start
    \/ Connack
    \/ on_disconnect
    \/ Ingest
    \/ Devices
    \/ Attach
    \/ Detach
    \/ HttpCommand
    \/ SocketCommand
    \/ get_messages
    \/ RequestState
    \/ disconnect
    \/ Reconfigure

SpecServer == InitServer /\ [][NextServer]_vars

(***************************************************************************)
(* What the claims about reconciliation speak about: the latest response   *)
(* of GET /api/devices, the roster it was computed from and the live       *)
(* states it read.                                                         *)
(***************************************************************************)
Reconciled == handled.op = "get_devices"
Roster == handled.devices
Live == handled.states
Output == handled.body

\* the devices of the output made from the roster entry e
OutputOf(e) == {i \in 1..Len(Output) : Output[i].chip_id = e.chip_id}

\* the live identifier a roster name stands for: the exact name, else the
\* hyphenated one, else none (<<>>)
KeyFor(name) ==
    IF name \in DOMAIN Live THEN name
    ELSE IF Replace(name, SPACE, HYPHEN) \in DOMAIN Live
         THEN Replace(name, SPACE, HYPHEN)
         ELSE <<>>

(***************************************************************************)
(* C12: every roster entry whose exact name or, failing that, whose        *)
(* hyphenated name is a live identifier appears in the output once, with   *)
(* its roster fields, online, and with the state and identifier of that    *)
(* key: the exact name when both are live.                                 *)
(***************************************************************************)
C12_RosterMatching ==
    Reconciled =>
        \A n \in 1..Len(Roster) :
            LET e == Roster[n]
                key == KeyFor(e.name)
            IN  key # <<>> =>
                    /\ Cardinality(OutputOf(e)) = 1
                    /\ \A i \in OutputOf(e) :
                           /\ Output[i].name = e.name
                           /\ Output[i].platform = e.platform
                           /\ Output[i].display = e.display
                           /\ Output[i].ip = e.ip
                           /\ Output[i].online
                           /\ Output[i].mqtt_name = key
                           /\ Output[i].mqtt_state = Live[key]

\* roster 'Pump House' was matched with the live 'Pump-House', its exact name
\* not being live
C12_Witness ==
    /\ Reconciled
    /\ \E n \in 1..Len(Roster) :
           /\ Roster[n].name = PUMP_SPACED
           /\ PUMP_SPACED \notin DOMAIN Live
           /\ PUMP \in DOMAIN Live
           /\ \E i \in OutputOf(Roster[n]) :
                  Output[i].mqtt_name = PUMP /\ Output[i].online

\* with both 'Pump House' and 'Pump-House' live the exact one was attached
C12_BothLive ==
    /\ Reconciled
    /\ \E n \in 1..Len(Roster) :
           /\ Roster[n].name = PUMP_SPACED
           /\ {PUMP_SPACED, PUMP} \subseteq DOMAIN Live
           /\ \E i \in OutputOf(Roster[n]) : Output[i].mqtt_name = PUMP_SPACED

(***************************************************************************)
(* C13: a roster entry of which neither the exact nor the hyphenated name  *)
(* is a live identifier is in no device of the output; with an empty store *)
(* or without a client the output is empty whatever the roster.            *)
(***************************************************************************)
C13_UnmatchedRosterDropped ==
    Reconciled =>
        /\ \A n \in 1..Len(Roster) :
               KeyFor(Roster[n].name) = <<>> => OutputOf(Roster[n]) = {}
        /\ (Live = EmptyDict \/ handled.client = "None") => Output = <<>>

\* of the roster 'Attic', 'garage-cam' only the live 'garage-cam' was output
C13_Witness ==
    /\ Reconciled
    /\ Len(Roster) = 2
    /\ Roster[1].name = ATTIC
    /\ KeyFor(ATTIC) = <<>>
    /\ DOMAIN Live = {CAM}
    /\ Len(Output) = 1
    /\ Output[1].name = CAM

\* a roster of two was reconciled without a client
C13_WitnessDisabled ==
    /\ Reconciled
    /\ handled.client = "None"
    /\ Len(Roster) = 2
    /\ Output = <<>>

(***************************************************************************)
(* C14: for every live identifier that no roster entry is matched with,    *)
(* the output holds a device named as the identifier with hyphens replaced *)
(* by spaces, with chip id, platform, display and ip 'Unknown', online,    *)
(* carrying the identifier and its live state.                             *)
(***************************************************************************)
Claimed == {KeyFor(Roster[n].name) : n \in 1..Len(Roster)}

C14_UnclaimedSynthesized ==
    Reconciled =>
        \A k \in DOMAIN Live \ Claimed :
            \E i \in 1..Len(Output) :
                /\ Output[i].mqtt_name = k
                /\ Output[i].name = Replace(k, HYPHEN, SPACE)
                /\ Output[i].chip_id = "Unknown"
                /\ Output[i].platform = "Unknown"
                /\ Output[i].display = "Unknown"
                /\ Output[i].ip = "Unknown"
                /\ Output[i].online
                /\ Output[i].mqtt_state = Live[k]

\* live 'garage-cam', in no roster entry, was output as 'garage cam' beside a
\* roster device
C14_Witness ==
    /\ Reconciled
    /\ CAM \in DOMAIN Live \ Claimed
    /\ Claimed \cap DOMAIN Live # {}
    /\ \E i \in 1..Len(Output) :
           /\ Output[i].mqtt_name = CAM
           /\ Output[i].name = CAM_SPACED
           /\ Output[i].chip_id = "Unknown"

(***************************************************************************)
(* C15: the output is sorted: for every adjacent pair (a, b),              *)
(* (not a.online, a.name) <= (not b.online, b.name), i.e. online before    *)
(* offline and by name within the same online value.                       *)
(***************************************************************************)
C15_OutputSorted ==
    Reconciled =>
        \A i \in 1..(Len(Output) - 1) :
            LET a == Output[i]
                b == Output[i + 1]
            IN  \/ a.online /\ ~b.online
                \/ a.online = b.online /\ (a.name = b.name \/ StrLess(a.name, b.name))

\* 'garage-cam' published before 'Pump-House' and is output behind it
C15_Witness ==
    /\ Reconciled
    /\ Roster = <<>>
    /\ handled.order = <<CAM, PUMP>>
    /\ Len(Output) = 2
    /\ Output[1].name = PUMP_SPACED
    /\ Output[2].name = CAM_SPACED

(***************************************************************************)
(* C16 (as claimed): the output is a function of the roster and of the     *)
(* mapping from identifier to state alone: in whatever order the devices   *)
(* of that mapping first published, get_devices returns the same list in   *)
(* the same order, two devices of the same display name included.          *)
(***************************************************************************)
\* the orders in which the keys of a dict may have been inserted
InsertionOrders(states) ==
    {o \in [1..Cardinality(DOMAIN states) -> DOMAIN states] :
        \A i, j \in DOMAIN o : o[i] = o[j] => i = j}

C16_OrderIndependent ==
    Reconciled =>
        \A o \in InsertionOrders(Live) : GetDevices(Roster, Live, o) = Output

(***************************************************************************)
(* C17 (as claimed): every ingest that changes the store's device states   *)
(* sends every observer, for each device whose state it changed, a         *)
(* device_update event with the identifier and the device's state as it is *)
(* after the ingest, a state that holds last_seen.                         *)
(***************************************************************************)
Mutated(before, after) ==
    {d \in DOMAIN after : d \notin DOMAIN before \/ after[d] # before[d]}

C17_MutationsAnnounced ==
    [][ncalls' = ncalls + 1 =>
          \A d \in Mutated(device_states, device_states') :
              /\ LAST_SEEN \in DOMAIN device_states'[d]
              /\ \A s \in observers :
                     \E i \in 1..Len(outbox'[s]) :
                         outbox'[s][i] = Event("device_update",
                                               [device |-> d,
                                                state |-> device_states'[d]])]_vars

(***************************************************************************)
(* C18 (as claimed): whenever a websocket client attaches, with or without *)
(* a client for the broker and connected or not, exactly one snapshot      *)
(* event (all device states, the recent history, the connectivity) is sent *)
(* to it and nothing to any other client.                                  *)
(***************************************************************************)
Snapshot ==
    Event("initial_state",
          [devices |-> device_states, messages |-> messages,
           mqtt_connected |-> is_connected])

C18_SnapshotOnAttach ==
    handled.op = "handle_connect" =>
        \A s \in Sids :
            outbox[s] = IF s = handled.sid THEN <<Snapshot>> ELSE <<>>

\* the same, for the attaches made while app.py holds a client
C18_SnapshotWithClient ==
    (handled.op = "handle_connect" /\ handled.client # "None") =>
        \A s \in Sids :
            outbox[s] = IF s = handled.sid THEN <<Snapshot>> ELSE <<>>

C19_WitnessDisconnect ==
    /\ handled.op = "on_disconnect"
    /\ handled.was_connected
    /\ observers = {1}
    /\ outbox[1][1].data.connected = FALSE
    /\ outbox[2] = <<>>

(***************************************************************************)
(* C20 (as claimed): a command request whose device or command is empty or *)
(* missing makes no publish call and is answered with a failure to its     *)
(* sender: the HTTP request with status 400 and success false, the         *)
(* websocket event with a failure result sent to the sending client.       *)
(***************************************************************************)
Invalid(data) == ~Truthy(Get(data, "device")) \/ ~Truthy(Get(data, "command"))

C20_InvalidCommandRejected ==
    /\ (handled.op = "send_command" /\ Invalid(handled.data)) =>
           /\ published = <<>>
           /\ handled.status = 400
           /\ ~handled.body.success
    /\ (handled.op = "handle_command" /\ Invalid(handled.data)) =>
           /\ published = <<>>
           /\ \E i \in 1..Len(outbox[handled.sid]) :
                  ~outbox[handled.sid][i].data.success

\* the HTTP half
C20_HttpInvalidRejected ==
    (handled.op = "send_command" /\ Invalid(handled.data)) =>
        /\ published = <<>>
        /\ handled.status = 400
        /\ ~handled.body.success

(***************************************************************************)
(* C21 (as claimed): a command request with a device and a command, made   *)
(* while there is no connection to the broker (no client after a failed    *)
(* startup connect, or a client that is not or no longer connected), is    *)
(* answered with a failure and makes no publish call.                      *)
(***************************************************************************)
C21_DisconnectedCommandUnavailable ==
    (handled.op = "send_command" /\ ~Invalid(handled.data) /\ ~is_connected) =>
        /\ published = <<>>
        /\ ~handled.body.success

\* the half for the server without a client
C21_NoClientUnavailable ==
    (handled.op = "send_command" /\ ~Invalid(handled.data) /\ mqtt_client = "None") =>
        /\ published = <<>>
        /\ ~handled.body.success
        /\ handled.status = 500

(***************************************************************************)
(* C22 (as claimed): every send_command event of a websocket client is     *)
(* answered with exactly one command result, sent to that client and to no *)
(* other, carrying success or failure and the device and command of the    *)
(* request: after a publish, for an invalid request and without a client.  *)
(***************************************************************************)
C22_EveryCommandAnswered ==
    handled.op = "handle_command" =>
        \A s \in Sids :
            IF s = handled.sid
            THEN /\ Len(outbox[s]) = 1
                 /\ outbox[s][1].event = "command_response"
                 /\ outbox[s][1].data.success \in BOOLEAN
                 /\ Get(outbox[s][1].data, "device") = Get(handled.data, "device")
                 /\ Get(outbox[s][1].data, "command") = Get(handled.data, "command")
            ELSE outbox[s] = <<>>

\* the same, for the requests the handler acts on: a client exists and
\* device and command are given
C22_AcceptedCommandAnswered ==
    (handled.op = "handle_command" /\ handled.client # "None" /\ ~Invalid(handled.data)) =>
        \A s \in Sids :
            IF s = handled.sid
            THEN /\ Len(outbox[s]) = 1
                 /\ outbox[s][1].event = "command_response"
                 /\ outbox[s][1].data.success = is_connected
                 /\ outbox[s][1].data.device = handled.data.device
                 /\ outbox[s][1].data.command = handled.data.command
            ELSE outbox[s] = <<>>

(***************************************************************************)
(* C23: a connect() that raises at startup is caught: the server goes on   *)
(* to serve without a client, and every request it then handles completes  *)
(* without raising: the device list and the message list are empty, a      *)
(* command is answered with a failure and nothing is published, and an     *)
(* attach, a state request and a websocket command return normally.        *)
(***************************************************************************)
C23_FailedStartupKeepsServing ==
    /\ (handled.op = "main" /\ handled.connect_raises) =>
           /\ pc = "serving"
           /\ mqtt_client = "None"
    /\ (pc = "serving" /\ mqtt_client = "None") =>
           /\ handled.op \in {"get_devices", "get_messages"} =>
                  /\ handled.raised = "None"
                  /\ handled.status = 200
                  /\ handled.body = <<>>
           /\ handled.op = "send_command" =>
                  /\ handled.status \in {400, 500}
                  /\ ~handled.body.success
                  /\ published = <<>>
           /\ handled.op \in {"handle_connect", "handle_request_state", "handle_command"} =>
                  /\ handled.sid \in observers
                  /\ published = <<>>

\* after a failed startup connect a complete command request was answered
\* 'MQTT client not connected'
C23_Witness ==
    /\ pc = "serving"
    /\ mqtt_client = "None"
    /\ handled.op = "send_command"
    /\ ~Invalid(handled.data)
    /\ handled.status = 500
    /\ ~handled.body.success

C24_WitnessNeverConnected ==
    /\ handled.op = "disconnect"
    /\ ~handled.repeated
    /\ ~handled.before.loop

(***************************************************************************)
(* C25 (as claimed): no step of the running server removes a device from   *)
(* the store or empties the history: not an ingest, not a disconnect, not  *)
(* a connectivity change and not a reconfiguration of the broker.          *)
(***************************************************************************)
C25_StoreNeverCleared ==
    [][/\ DOMAIN device_states \subseteq DOMAIN device_states'
       /\ messages # <<>> => messages' # <<>>]_vars

\* the same of every step but a reconfiguration that replaces the client
C25_ClearedOnlyByReconfiguration ==
    [][(handled'.op # "handle_config") =>
          /\ DOMAIN device_states \subseteq DOMAIN device_states'
          /\ messages # <<>> => messages' # <<>>]_vars

(***************************************************************************)
(* C29 (as claimed): in every state every device in the store has a        *)
(* last_seen value and, beside it, at least one kind entry.                *)
(***************************************************************************)
C29_NoEmptyDeviceState ==
    \A d \in DOMAIN device_states :
        /\ LAST_SEEN \in DOMAIN device_states[d]
        /\ DOMAIN device_states[d] \ {LAST_SEEN} # {}

\* the same at the end of every call that did not raise and whose kind is not
\* 'last_seen', for the device of the message
C29_IngestedDeviceComplete ==
    (last.called /\ last.raised = "None" /\ SentKind # LAST_SEEN) =>
        /\ LAST_SEEN \in DOMAIN device_states[SentDevice]
        /\ SentKind \in DOMAIN device_states[SentDevice]

(***************************************************************************)
(* C30 (as claimed): in every reconciled output each live identifier is    *)
(* the mqtt_name of exactly one device.                                    *)
(***************************************************************************)
AttachedTo(k) == {i \in 1..Len(Output) : Output[i].mqtt_name = k}

C30_EachLiveAttachedOnce ==
    Reconciled =>
        \A k \in DOMAIN Live : Cardinality(AttachedTo(k)) = 1

(***************************************************************************)
(* C30 (amended): in every reconciled output each live identifier is the   *)
(* mqtt_name of at least one device: of one device for each roster entry   *)
(* matched with it (two when the roster holds both 'Pump House' and        *)
(* 'Pump-House' and only 'Pump-House' is live), and of exactly one, the    *)
(* synthesized device, when no roster entry is matched with it.            *)
(***************************************************************************)
MatchedWith(k) == {n \in 1..Len(Roster) : KeyFor(Roster[n].name) = k}

C30_AttachedOncePerMatch ==
    Reconciled =>
        \A k \in DOMAIN Live :
            Cardinality(AttachedTo(k)) =
                IF MatchedWith(k) = {} THEN 1 ELSE Cardinality(MatchedWith(k))

\* live 'Pump-House' is attached to the roster's 'Pump House' and to its
\* 'Pump-House', and the live 'garage-cam' to its one synthesized device
C30_Witness ==
    /\ Reconciled
    /\ DOMAIN Live = {PUMP, CAM}
    /\ Cardinality(MatchedWith(PUMP)) = 2
    /\ Cardinality(AttachedTo(PUMP)) = 2
    /\ Cardinality(AttachedTo(CAM)) = 1

(***************************************************************************)
(* The two threads.  MQTTClient.connect starts the client's network loop   *)
(* with loop_start(): a thread of its own, which calls on_message for one  *)
(* message after the other.  The requests are served by the server's       *)
(* thread.  The source takes no lock and does not patch the threading      *)
(* module, so the statements of on_message interleave with those of a      *)
(* request.  The steps below are the statements of on_message and of       *)
(* get_devices between two accesses of the store; `ingest` and `request`   *)
(* hold the position and the locals of each.                               *)
(***************************************************************************)
ThreadInputs ==
    { << <<MQTT_BASE_TOPIC, PUMP, STATUS>>, JSON_OBJECT >>,
      << <<MQTT_BASE_TOPIC, CAM, STATUS>>, JSON_OBJECT >>,
      << <<MQTT_BASE_TOPIC, PUMP, STATUS>>, JsonWithTimestamp(Num(1900000, 0)) >>,
      << <<MQTT_BASE_TOPIC, PUMP, STATUS>>, JsonWithTimestamp([type |-> "str"]) >> }

ThreadRosters ==
    { << RosterEntry(PUMP_SPACED, "A1") >> }

\* the events of one message in the order of the emit calls of lines 125
\* and 129, had device_update been emitted first
Emits_UpdateFirst(frame, states) ==
    << Event("device_update",
             [device |-> frame.device_name, state |-> states[frame.device_name]]),
       Event("mqtt_message", frame.message_data) >>

\* the events of one message in the order of the emit calls of lines 125
\* and 129
Emits(frame, states) ==
    << Event("mqtt_message", frame.message_data),
       Event("device_update",
             [device |-> frame.device_name, state |-> states[frame.device_name]]) >>

\* socketio.emit(...) of the event ev of message n: appended to what each
\* attached client has been sent
Deliver(chan, clients, n, ev) ==
    [s \in Sids |-> IF s \in clients
                    THEN Append(chan[s], [n |-> n, event |-> ev.event])
                    ELSE chan[s]]

\* lines 57-85: decode, parse, split the topic, append to the history
om_store(segs, raw) ==
    /\ pc = "serving"
    /\ mqtt_client = "MQTTClient"
    /\ loop_running
    /\ is_connected
    /\ ingest.at = "idle"
    /\ ncalls < MaxIngest
    /\ LET topic == TopicOf(segs)
           decoded == Utf8Decode(raw)
           parsed == IF decoded.ok THEN ParsePayload(decoded.val) ELSE decoded
           topic_parts == Split(topic, SLASH)
           device_name == DeviceName(topic_parts)
           message_type == MessageType(topic_parts)
           message_data == MessageData(topic, parsed.val, clock,
                                       device_name, message_type)
       IN  IF ~parsed.ok
           THEN /\ ingest' = Idle
                /\ UNCHANGED messages
           ELSE /\ messages' = StoreMessage(messages, message_data)
                /\ ingest' = [at |-> "stored", n |-> ncalls + 1,
                              device_name |-> device_name,
                              message_type |-> message_type,
                              payload_json |-> parsed.val,
                              message_data |-> message_data,
                              before |-> device_states]
    /\ ncalls' = ncalls + 1
    /\ emitted' = <<>>
    /\ UNCHANGED <<device_states, device_order, last, arrived, clock, pc, mqtt_client,
                   is_connected, loop_running, observers, request,
                   channel>>
    /\ outbox' = NoEvents
    /\ published' = <<>>
    /\ handled' = [op |-> "on_message"]

\* lines 88-105: the device's entry is created when absent, then the
\* timestamp is computed; an exception ends the call in the handler of
\* line 137
om_ensure_device ==
    /\ ingest.at = "stored"
    /\ device_states' = EnsureDevice(device_states, ingest.device_name)
    /\ device_order' = KeysInOrder(device_order, device_states')
    /\ LET ts == DeviceTimestamp(ingest.payload_json, clock)
       IN  ingest' = IF ts.ok
                     THEN [at |-> "ensured", device_timestamp |-> ts.val] @@ ingest
                     ELSE Idle
    /\ UNCHANGED <<messages, emitted, last, arrived, ncalls, clock, pc, mqtt_client,
                   is_connected, loop_running, observers, request,
                   channel>>
    /\ outbox' = NoEvents
    /\ published' = <<>>
    /\ handled' = [op |-> "on_message"]

\* lines 107-110
om_set_kind ==
    /\ ingest.at = "ensured"
    /\ device_states' =
           DictSet(device_states, ingest.device_name,
                   SetKind(device_states[ingest.device_name], ingest.message_type,
                           ingest.payload_json, ingest.device_timestamp))
    /\ ingest' = [ingest EXCEPT !.at = "kind_set"]
    /\ UNCHANGED <<messages, device_order, emitted, last, arrived, ncalls, clock, pc,
                   mqtt_client, is_connected, loop_running, observers, request,
                   channel>>
    /\ outbox' = NoEvents
    /\ published' = <<>>
    /\ handled' = [op |-> "on_message"]

\* line 114
om_set_last_seen ==
    /\ ingest.at = "kind_set"
    /\ device_states' =
           DictSet(device_states, ingest.device_name,
                   SetLastSeen(device_states[ingest.device_name],
                               ingest.device_timestamp))
    /\ ingest' = [ingest EXCEPT !.at = "seen_set"]
    /\ UNCHANGED <<messages, device_order, emitted, last, arrived, ncalls, clock, pc,
                   mqtt_client, is_connected, loop_running, observers, request,
                   channel>>
    /\ outbox' = NoEvents
    /\ published' = <<>>
    /\ handled' = [op |-> "on_message"]

\* lines 122-126: eventlet.sleep(0), emit 'mqtt_message', eventlet.sleep(0)
om_emit_message ==
    /\ ingest.at = "seen_set"
    /\ LET ev == Emits(ingest, device_states)[1]
       IN  /\ emitted' = Append(emitted, ev)
           /\ outbox' = SocketIOEmit(observers, <<ev>>)
           /\ channel' = Deliver(channel, observers, ingest.n, ev)
    /\ ingest' = [ingest EXCEPT !.at = "message_emitted"]
    /\ UNCHANGED <<messages, device_states, device_order, last, arrived, ncalls, clock,
                   pc, mqtt_client, is_connected, loop_running, observers, request>>
    /\ published' = <<>>
    /\ handled' = [op |-> "on_message"]

\* lines 129-133: emit 'device_update' with the device's state as it is now,
\* eventlet.sleep(0); on_message returns
om_emit_update ==
    /\ ingest.at = "message_emitted"
    /\ LET ev == Emits(ingest, device_states)[2]
       IN  /\ emitted' = Append(emitted, ev)
           /\ outbox' = SocketIOEmit(observers, <<ev>>)
           /\ channel' = Deliver(channel, observers, ingest.n, ev)
    /\ ingest' = Idle
    /\ UNCHANGED <<messages, device_states, device_order, last, arrived, ncalls, clock,
                   pc, mqtt_client, is_connected, loop_running, observers, request>>
    /\ published' = <<>>
    /\ handled' = [op |-> "on_message"]

\* what get_device_states() returns: the dict self.device_states itself
StatesObject == [attr |-> "device_states"]

\* the value read through a reference to the store's dict, or to the dict
\* of one device in it
Deref(obj, states) ==
    IF "attr" \in DOMAIN obj THEN states ELSE states[obj.ref]

\* device['mqtt_state'] = device_states[mqtt_name]: the entry holds the
\* device's dict itself
Referenced(entries) ==
    [i \in 1..Len(entries) |->
        [entries[i] EXCEPT !.mqtt_state = [ref |-> entries[i].mqtt_name]]]

\* the entries as jsonify writes them: each dict they hold, as it is then
Serialized(entries, states) ==
    [i \in 1..Len(entries) |->
        [entries[i] EXCEPT !.mqtt_state = Deref(entries[i].mqtt_state, states)]]

\* a dict iterator: the size of the dict when it was made and the number of
\* items it has yielded
DictIter(states) == [used |-> Cardinality(DOMAIN states), pos |-> 0]

\* next(iterator): RuntimeError when the dict has another size than when the
\* iterator was made, StopIteration after the last key, else the next key
IterNext(it, states, order) ==
    IF it.used # Cardinality(DOMAIN states) THEN Raise("RuntimeError")
    ELSE IF it.pos >= Len(order) THEN Raise("StopIteration")
    ELSE Ok(order[it.pos + 1])

\* lines 83-115: the roster is loaded, get_device_states() returns, the
\* roster is matched and the iterator of the second loop is made
gd_enrich(devices) ==
    /\ pc = "serving"
    /\ mqtt_client = "MQTTClient"
    /\ request.at = "idle"
    /\ LET device_states_ == StatesObject
           states == Deref(device_states_, device_states)
           r == EnrichRoster(devices, states, Len(devices))
       IN  request' = [at |-> "iterating", devices |-> devices,
                       device_states |-> device_states_,
                       returned |-> get_device_states,
                       enriched_devices |-> Referenced(r.enriched),
                       matched_mqtt_devices |-> r.matched,
                       it |-> DictIter(states)]
    /\ outbox' = NoEvents
    /\ published' = <<>>
    /\ handled' = [op |-> "get_devices_begun"]
    /\ UNCHANGED <<store, clock, pc, mqtt_client, is_connected, loop_running,
                   observers, ingest, channel>>

\* lines 115-128: one turn of the loop over device_states.items(); the
\* RuntimeError of a dict that changed size is answered with status 500
gd_next_item ==
    /\ request.at = "iterating"
    /\ LET states == Deref(request.device_states, device_states)
           item == IterNext(request.it, states, device_order)
           mqtt_name == item.val
       IN  IF item.ok
           THEN /\ request' =
                       [request EXCEPT
                           !.it.pos = @ + 1,
                           !.enriched_devices =
                               IF mqtt_name \notin request.matched_mqtt_devices
                               THEN Append(@, Synthesized(mqtt_name,
                                                          [ref |-> mqtt_name]))
                               ELSE @]
                /\ UNCHANGED <<handled, outbox, published>>
           ELSE IF item.exc = "StopIteration"
           THEN /\ request' = [request EXCEPT !.at = "sorting"]
                /\ UNCHANGED <<handled, outbox, published>>
           ELSE /\ request' = Idle
                /\ handled' = [op |-> "get_devices", client |-> mqtt_client,
                               devices |-> request.devices,
                               states |-> states, order |-> device_order,
                               raised |-> item.exc, status |-> 500, body |-> <<>>,
                               during |-> ingest]
                /\ outbox' = NoEvents
                /\ published' = <<>>
    /\ UNCHANGED <<store, clock, pc, mqtt_client, is_connected, loop_running,
                   observers, ingest, channel>>

\* lines 131-133: sort, then jsonify writes the entries and the dicts they
\* hold
gd_respond ==
    /\ request.at = "sorting"
    /\ LET states == Deref(request.device_states, device_states)
       IN  handled' = [op |-> "get_devices", client |-> mqtt_client,
                       devices |-> request.devices,
                       states |-> states, order |-> device_order,
                       raised |-> "None", status |-> 200,
                       body |-> Serialized(SortDevices(request.enriched_devices),
                                           states),
                       during |-> ingest]
    /\ request' = Idle
    /\ outbox' = NoEvents
    /\ published' = <<>>
    /\ UNCHANGED <<store, clock, pc, mqtt_client, is_connected, loop_running,
                   observers, ingest, channel>>

\* the server's thread runs one handler at a time
ServerFree == request.at = "idle"

\* the broker session is up and no message has arrived
InitThreads ==
    /\ messages = <<>>
    /\ device_states = EmptyDict
    /\ device_order = <<>>
    /\ emitted = <<>>
    /\ clock = NOW0
    /\ last = NoCall
    /\ arrived = <<>>
    /\ ncalls = 0
    /\ pc = "serving"
    /\ mqtt_client = "MQTTClient"
    /\ is_connected = TRUE
    /\ loop_running = TRUE
    /\ observers = {}
    /\ outbox = NoEvents
    /\ published = <<>>
    /\ handled = NoRequest
    /\ ingest = Idle
    /\ request = Idle
    /\ channel = NoEvents

Arrive == \E inp \in ThreadInputs : om_store(inp[1], inp[2])
DevicesRequest == \E devices \in ThreadRosters : gd_enrich(devices)
AttachFree == ServerFree /\ Attach

NextThreads ==
    \/ Arrive
    \/ om_ensure_device
    \/ om_set_kind
    \/ om_set_last_seen
    \/ om_emit_message
    \/ om_emit_update
    \/ DevicesRequest
    \/ gd_next_item
    \/ gd_respond
    \/ AttachFree

SpecThreads == InitThreads /\ [][NextThreads]_vars

(***************************************************************************)
(* C26: the value get_device_states() returned is not changed by an ingest *)
(* that happens after the call returned: as long as get_devices holds it,  *)
(* it reads as it did when the call returned.                              *)
(***************************************************************************)
C26_ReturnedStatesUnchanged ==
    request.at # "idle" =>
        Deref(request.device_states, device_states) = request.returned

(***************************************************************************)
(* C27: a reconciliation that runs while a message is being ingested       *)
(* answers without an exception, and shows the message's device either as  *)
(* it was before the message or as it is once the message is merged: never *)
(* without last_seen, never with the new kind entry beside the previous    *)
(* last_seen.                                                              *)
(***************************************************************************)
\* the device of the message in progress, as it was before the message
BeforeIngest(frame) ==
    IF frame.device_name \in DOMAIN frame.before
    THEN {frame.before[frame.device_name]}
    ELSE {}

\* the device of the message in progress, once the message is merged
AfterIngest(frame) ==
    IF frame.at = "stored" THEN {}
    ELSE {UpdateDeviceState(EnsureDevice(frame.before, frame.device_name),
                            frame.device_name, frame.message_type,
                            frame.payload_json,
                            frame.device_timestamp)[frame.device_name]}

DuringIngest == handled.op = "get_devices" /\ handled.during.at # "idle"

C27_ConcurrentReadsAreWhole ==
    /\ handled.op = "get_devices" => handled.raised = "None"
    /\ DuringIngest =>
           \A i \in 1..Len(handled.body) :
               handled.body[i].mqtt_name = handled.during.device_name =>
                   handled.body[i].mqtt_state \in
                       BeforeIngest(handled.during) \cup AfterIngest(handled.during)

(***************************************************************************)
(* C28: in what each observer is sent, the mqtt_message event of a message *)
(* comes before its device_update event, and both come before every event  *)
(* of a later message.                                                     *)
(***************************************************************************)
C28_EmissionOrderPerObserver ==
    \A s \in Sids :
        \A i, j \in 1..Len(channel[s]) :
            i < j =>
                \/ channel[s][i].n < channel[s][j].n
                \/ /\ channel[s][i].n = channel[s][j].n
                   /\ channel[s][i].event = "mqtt_message"
                   /\ channel[s][j].event = "device_update"

\* an observer has been sent both events of two messages, and another one,
\* attached between the two emits of the second message, its device_update
C28_Witness ==
    \E s, t \in Sids :
        /\ Len(channel[s]) = 4
        /\ channel[s][3].n = 2
        /\ Len(channel[t]) = 1
        /\ channel[t][1] = [n |-> 2, event |-> "device_update"]

(***************************************************************************)
(* C31: an on_message call for device d and kind k leaves the state of     *)
(* every other device as it was, adds no device but d, and keeps every     *)
(* kind entry of d other than kinds[k] as it was, adding no key to d but k *)
(* and last_seen.                                                          *)
(***************************************************************************)
\* the keys of the device d that are kind entries
Kinds(states, d) == DOMAIN states[d] \ {LAST_SEEN}

C31_IngestTouchesOnlyItsEntry ==
    [][ncalls' = ncalls + 1 =>
          LET d == SentDevice'
              k == SentKind'
          IN  /\ DOMAIN device_states' \subseteq DOMAIN device_states \cup {d}
              /\ \A e \in DOMAIN device_states \ {d} :
                     /\ e \in DOMAIN device_states'
                     /\ device_states'[e] = device_states[e]
              /\ d \in DOMAIN device_states =>
                     /\ DOMAIN device_states'[d] \subseteq
                            DOMAIN device_states[d] \cup {k, LAST_SEEN}
                     /\ \A key \in Kinds(device_states, d) \ {k} :
                            /\ key \in DOMAIN device_states'[d]
                            /\ device_states'[d][key] = device_states[d][key]]_vars

\* a message of kind 'unknown' for 'Pump-House' was merged at a later instant
\* than the 'status' entry the device already had, with the device 'unknown'
\* of the backlog beside it
C31_Witness ==
    /\ last.called
    /\ last.raised = "None"
    /\ SentDevice = PUMP
    /\ SentKind = UNKNOWN
    /\ UNKNOWN \in DOMAIN device_states
    /\ HasLastSeen(device_states, UNKNOWN)
    /\ PUMP \in DOMAIN device_states
    /\ {STATUS, UNKNOWN} \subseteq Kinds(device_states, PUMP)
    /\ device_states[PUMP][STATUS].timestamp # device_states[PUMP][LAST_SEEN]
    /\ device_states[PUMP][UNKNOWN].timestamp = device_states[PUMP][LAST_SEEN]

====
